---- MODULE Spec2Model ----
(***************************************************************************)
(* A model of the t-SNE optimizer of go-tsne (package tsne).               *)
(*                                                                         *)
(* float64 values are modelled by a binary floating-point format with a    *)
(* short mantissa: a value is a pair <<m, e>> standing for m * 2^e, with   *)
(* MantBits significant bits, rounding on every operation, overflow to     *)
(* +-Inf, underflow to zero and a NaN, so that the cases the code meets in *)
(* float64 (rounding, exp underflow, 0 * Inf, division by zero) all occur. *)
(***************************************************************************)
EXTENDS Integers, Sequences, FiniteSets, TLC

\* Number of significant bits of the modelled floating-point format.
MantBits == 14

\* Exponent range of float64: the leading bit of a finite nonzero value
\* has weight between 2^ExpMin and 2^ExpMax.
ExpMin == -1074
ExpMax == 1023

----------------------------------------------------------------------------
(* Floating-point values *)

InfExp == ExpMax + 1
Zero   == <<0, 0>>
PosInf == <<1, InfExp>>
NegInf == <<-1, InfExp>>
NaN    == <<0, InfExp>>

IsFinite(x) == x[2] # InfExp

Pow2(k) == 2 ^ k

IntAbs(k) == IF k < 0 THEN -k ELSE k

Sgn(k) == IF k < 0 THEN -1 ELSE IF k > 0 THEN 1 ELSE 0

RECURSIVE BitLen(_)
BitLen(a) == IF a < 2 THEN 1 ELSE 1 + BitLen(a \div 2)

\* The float nearest to m * 2^e: normalise the mantissa to MantBits bits,
\* round half up, overflow to an infinity, underflow to zero.
Norm(m, e) ==
    IF m = 0 THEN Zero
    ELSE LET a     == IntAbs(m)
             sh    == BitLen(a) - MantBits
             r0    == IF sh > 0 THEN (a + Pow2(sh - 1)) \div Pow2(sh)
                                ELSE a * Pow2(-sh)
             carry == r0 = Pow2(MantBits)
             r     == IF carry THEN Pow2(MantBits - 1) ELSE r0
             e2    == e + sh + (IF carry THEN 1 ELSE 0)
             top   == e2 + MantBits - 1
         IN  IF top > ExpMax THEN (IF m > 0 THEN PosInf ELSE NegInf)
             ELSE IF top < ExpMin THEN Zero
             ELSE <<Sgn(m) * r, e2>>

FromInt(k) == Norm(k, 0)

One == FromInt(1)

Neg(x) == <<-x[1], x[2]>>

Abs(x) == <<IntAbs(x[1]), x[2]>>

Add(x, y) ==
    IF x = NaN \/ y = NaN THEN NaN
    ELSE IF ~IsFinite(x) THEN (IF ~IsFinite(y) /\ y # x THEN NaN ELSE x)
    ELSE IF ~IsFinite(y) THEN y
    ELSE IF x[1] = 0 THEN y
    ELSE IF y[1] = 0 THEN x
    ELSE LET d == x[2] - y[2]
         IN  IF d > MantBits THEN x
             ELSE IF d < -MantBits THEN y
             ELSE IF d >= 0 THEN Norm(x[1] * Pow2(d) + y[1], y[2])
             ELSE Norm(y[1] * Pow2(-d) + x[1], x[2])

Sub(x, y) == Add(x, Neg(y))

Mul(x, y) ==
    IF x = NaN \/ y = NaN THEN NaN
    ELSE IF ~IsFinite(x) \/ ~IsFinite(y)
         THEN (IF x[1] = 0 \/ y[1] = 0 THEN NaN
               ELSE IF Sgn(x[1]) = Sgn(y[1]) THEN PosInf ELSE NegInf)
    ELSE Norm(x[1] * y[1], x[2] + y[2])

Div(x, y) ==
    IF x = NaN \/ y = NaN THEN NaN
    ELSE IF ~IsFinite(x)
         THEN (IF ~IsFinite(y) THEN NaN
               ELSE IF (x[1] > 0) = (y[1] >= 0) THEN PosInf ELSE NegInf)
    ELSE IF ~IsFinite(y) THEN Zero
    ELSE IF y[1] = 0
         THEN (IF x[1] = 0 THEN NaN ELSE IF x[1] > 0 THEN PosInf ELSE NegInf)
    ELSE Norm(Sgn(x[1]) * Sgn(y[1])
                * ((IntAbs(x[1]) * Pow2(MantBits)) \div IntAbs(y[1])),
              x[2] - y[2] - MantBits)

\* x < y; false when either is NaN.
Lt(x, y) ==
    IF x = NaN \/ y = NaN THEN FALSE
    ELSE IF Sgn(x[1]) # Sgn(y[1]) THEN Sgn(x[1]) < Sgn(y[1])
    ELSE IF x[1] = 0 THEN FALSE
    ELSE IF x[1] > 0 THEN x[2] < y[2] \/ (x[2] = y[2] /\ x[1] < y[1])
    ELSE x[2] > y[2] \/ (x[2] = y[2] /\ x[1] < y[1])

Gt(x, y) == Lt(y, x)

\* x == y of the language; NaN equals nothing.
Eq(x, y) == x # NaN /\ x = y

\* math.Max: NaN if either argument is NaN.
Max(x, y) ==
    IF x = NaN \/ y = NaN THEN NaN
    ELSE IF Lt(x, y) THEN y ELSE x

\* ln 2 in fixed point with MantBits fractional bits.
Ln2Fix == (22713 * Pow2(MantBits)) \div 32768

RECURSIVE ExpHorner(_, _)
\* exp(-r / 2^MantBits) * 2^MantBits for 0 <= r < Ln2Fix, by its Taylor series.
ExpHorner(r, j) ==
    IF j > 9 THEN Pow2(MantBits)
    ELSE Pow2(MantBits) - (r * ExpHorner(r, j + 1)) \div (j * Pow2(MantBits))

\* exp(-a) for a finite a > 0: exp(-a) = 2^-k * exp(-r), a = k ln 2 + r.
ExpNeg(a) ==
    LET sh == a[2] + MantBits
    IN  IF sh > 11 THEN Zero
        ELSE LET ai == IF sh >= 0 THEN a[1] * Pow2(sh)
                       ELSE IF sh < -(MantBits + 1) THEN 0
                       ELSE a[1] \div Pow2(-sh)
                 k  == ai \div Ln2Fix
                 r  == ai % Ln2Fix
             IN  Norm(ExpHorner(r, 1), -k - MantBits)

\* math.Exp
Exp(x) ==
    IF x = NaN THEN NaN
    ELSE IF x = PosInf THEN PosInf
    ELSE IF x = NegInf THEN Zero
    ELSE IF x[1] = 0 THEN One
    ELSE IF x[1] < 0 THEN ExpNeg(Neg(x))
    ELSE Div(One, ExpNeg(x))

RECURSIVE LogHorner(_, _)
\* (1 + s2/3 + s2^2/5 + ...) in fixed point.
LogHorner(s2, j) ==
    IF j > 7 THEN Pow2(MantBits) \div (2 * j + 1)
    ELSE Pow2(MantBits) \div (2 * j + 1)
           + (s2 * LogHorner(s2, j + 1)) \div Pow2(MantBits)

\* math.Log: ln(m * 2^e) = (e + MantBits - 1) ln 2 + ln f with f in [1, 2),
\* ln f = 2 atanh((f - 1) / (f + 1)).
Log(x) ==
    IF x = NaN THEN NaN
    ELSE IF x = PosInf THEN PosInf
    ELSE IF x[1] < 0 THEN NaN
    ELSE IF x[1] = 0 THEN NegInf
    ELSE LET half == Pow2(MantBits - 1)
             s    == ((x[1] - half) * Pow2(MantBits)) \div (x[1] + half)
             s2   == (s * s) \div Pow2(MantBits)
             lnf  == (2 * s * LogHorner(s2, 0)) \div Pow2(MantBits)
         IN  Norm((x[2] + MantBits - 1) * Ln2Fix + lnf, -MantBits)

----------------------------------------------------------------------------
(* Program constants (package tsne) *)

Epsilon                  == Div(One, FromInt(10000000))
GreaterThanZero          == Mul(Div(One, FromInt(1000000)), Div(One, FromInt(1000000)))
EntropyTolerance         == Div(One, FromInt(100000))
MaxBinarySearchSteps     == 50
InitialStandardDeviation == Div(One, FromInt(10000))

----------------------------------------------------------------------------
(* Matrices (gonum mat.Dense): a matrix is a sequence of rows; Nil is the  *)
(* nil pointer of a field not yet allocated.                               *)

Nil == <<>>

\* F applied to the value of v, which is computed once.
Bind(v, F(_)) == CHOOSE y \in {F(x) : x \in {v}} : TRUE

Rows(M) == Len(M)

Cols(M) == IF Len(M) = 0 THEN 0 ELSE Len(M[1])

\* mat.NewDense(r, c, nil): all zeros.
NewDense(r, c) == [a \in 1..r |-> [b \in 1..c |-> Zero]]

IntMatrix(M) == [a \in 1..Len(M) |-> [b \in 1..Len(M[a]) |-> FromInt(M[a][b])]]

RECURSIVE SumTo(_, _)
\* s[1] + ... + s[k], added left to right starting from zero.
SumTo(s, k) == IF k = 0 THEN Zero ELSE Add(SumTo(s, k - 1), s[k])

SeqSum(s) == SumTo(s, Len(s))

\* mat.Sum: the sum of the row sums.
MatSum(M) == SeqSum([a \in 1..Rows(M) |-> SeqSum(M[a])])

Dot(u, v) == SeqSum([b \in 1..Len(u) |-> Mul(u[b], v[b])])

----------------------------------------------------------------------------
(* Distance layer *)

\* Diagonal(a): the diagonal of a square matrix.
Diagonal(a) == [r \in 1..Rows(a) |-> a[r][r]]

\* Line 315: X times its transpose.
MulTranspose(X) == [r \in 1..Rows(X) |-> [c \in 1..Rows(X) |-> Dot(X[r], X[c])]]

\* SquaredDistanceMatrix with the diagonal taken after xy was scaled by -2.
SDMDiagonalAfterScale(X) ==
    Bind(MulTranspose(X), LAMBDA xy :
    Bind([r \in 1..Rows(xy) |-> Mul(FromInt(-2), xy[r][r])], LAMBDA dg :
        [r \in 1..Rows(xy) |-> [c \in 1..Rows(xy) |->
            Add(Add(dg[r], dg[c]), Mul(FromInt(-2), xy[r][c]))]]))

\* SquaredDistanceMatrix(X): x'x + y'y - 2 x'y.
SquaredDistanceMatrix(X) ==
    Bind(MulTranspose(X), LAMBDA xy :
    Bind(Diagonal(xy), LAMBDA dg :
        [r \in 1..Rows(xy) |-> [c \in 1..Rows(xy) |->
            Add(Add(dg[r], dg[c]), Mul(FromInt(-2), xy[r][c]))]]))

----------------------------------------------------------------------------
(* Affinity calibration (d2p) *)

\* The raw probabilities with the point counted as its own neighbour.
RawRowWithDiagonal(Di, i, beta) ==
    [j \in 1..Len(Di) |-> Exp(Mul(Neg(Di[j]), beta))]

\* One pass of lines 130-140: the raw probabilities of row i for precision beta.
RawRow(Di, i, beta) ==
    [j \in 1..Len(Di) |-> IF i = j THEN Zero ELSE Exp(Mul(Neg(Di[j]), beta))]

\* The row divided by its sum whatever the sum is.
NormalizeRowUnguarded(raw) ==
    Bind(SeqSum(raw), LAMBDA pSum : [j \in 1..Len(raw) |-> Div(raw[j], pSum)])

\* Lines 143-150: the row divided by its sum, or all zero when the sum is zero.
NormalizeRow(raw) ==
    Bind(SeqSum(raw), LAMBDA pSum :
        [j \in 1..Len(raw) |-> IF Eq(pSum, Zero) THEN Zero ELSE Div(raw[j], pSum)])

RECURSIVE EntropyTo(_, _)
\* Lines 142-154: H -= p * log(p) over the entries above Epsilon, in order.
EntropyTo(row, k) ==
    IF k = 0 THEN Zero
    ELSE IF Gt(row[k], Epsilon)
         THEN Sub(EntropyTo(row, k - 1), Mul(row[k], Log(row[k])))
         ELSE EntropyTo(row, k - 1)

Entropy(row) == EntropyTo(row, Len(row))

\* The two branches exchanged: the precision is lowered when the entropy is
\* too high.
AdjustBetaSwapped(Hdiff, beta, betaMin, betaMax) ==
    IF Gt(Hdiff, Zero)
    THEN [betaMin |-> betaMin, betaMax |-> beta,
          beta |-> IF Eq(betaMin, NegInf) THEN Div(beta, FromInt(2))
                   ELSE Div(Add(beta, betaMin), FromInt(2))]
    ELSE [betaMin |-> beta, betaMax |-> betaMax,
          beta |-> IF Eq(betaMax, PosInf) THEN Mul(beta, FromInt(2))
                   ELSE Div(Add(beta, betaMax), FromInt(2))]

\* The midpoint taken with the bound on the wrong side of beta.
AdjustBetaWrongBound(Hdiff, beta, betaMin, betaMax) ==
    IF Gt(Hdiff, Zero)
    THEN [betaMin |-> beta, betaMax |-> betaMax,
          beta |-> IF Eq(betaMax, PosInf) THEN Mul(beta, FromInt(2))
                   ELSE Div(Add(beta, betaMin), FromInt(2))]
    ELSE [betaMin |-> betaMin, betaMax |-> beta,
          beta |-> IF Eq(betaMin, NegInf) THEN Div(beta, FromInt(2))
                   ELSE Div(Add(beta, betaMax), FromInt(2))]

\* Lines 156-174: the new beta and bounds, from the entropy difference.
AdjustBeta(Hdiff, beta, betaMin, betaMax) ==
    IF Gt(Hdiff, Zero)
    THEN [betaMin |-> beta, betaMax |-> betaMax,
          beta |-> IF Eq(betaMax, PosInf) THEN Mul(beta, FromInt(2))
                   ELSE Div(Add(beta, betaMax), FromInt(2))]
    ELSE [betaMin |-> betaMin, betaMax |-> beta,
          beta |-> IF Eq(betaMin, NegInf) THEN Div(beta, FromInt(2))
                   ELSE Div(Add(beta, betaMin), FromInt(2))]

\* The test of line 176 without the absolute value.
WithinToleranceSigned(Hdiff, tol) == Lt(Hdiff, tol)

\* Line 176: the search of a row stops when the entropy is within tolerance.
WithinTolerance(Hdiff, tol) == Lt(Abs(Hdiff), tol)

\* P + P^T computed in place, row by row: the rows below the diagonal read
\* entries of the transpose that were already overwritten.
AddTransposeInPlace(P) ==
    [a \in 1..Rows(P) |-> [b \in 1..Cols(P) |->
        IF b < a THEN Add(P[a][b], Add(P[b][a], P[a][b]))
        ELSE Add(P[a][b], P[b][a])]]

\* Line 182: P + P^T.
AddTranspose(P) ==
    [a \in 1..Rows(P) |-> [b \in 1..Cols(P) |-> Add(P[a][b], P[b][a])]]

\* The factor 1 / n.
ScaleByOneOverN(n) == Div(One, FromInt(n))

\* Line 183: the factor 1 / (2n).
SymmetrizeScale(n) == Div(One, FromInt(2 * n))

\* Lines 181-186: symmetrize, normalize and floor P.
Symmetrize(P, n) ==
    Bind(AddTranspose(P), LAMBDA S :
    Bind(SymmetrizeScale(n), LAMBDA f :
        [a \in 1..Rows(S) |-> [b \in 1..Cols(S) |->
            Max(Mul(f, S[a][b]), GreaterThanZero)]]))

----------------------------------------------------------------------------
(* Embedding optimizer *)

\* The sum of ln P, the product with P left out.
SumLogP(P) ==
    MatSum([a \in 1..Rows(P) |-> [b \in 1..Cols(P) |-> Log(P[a][b])]])

\* Lines 92-99: the constant part of the divergence, sum of P * ln P.
ComputePlogP(P) ==
    MatSum([a \in 1..Rows(P) |-> [b \in 1..Cols(P) |->
                Mul(P[a][b], Log(P[a][b]))]])

\* Lines 231-238: the unnormalized Student-t affinities of Y.
StudentT(Y) ==
    Bind(SquaredDistanceMatrix(Y), LAMBDA Dy :
        [a \in 1..Rows(Dy) |-> [b \in 1..Rows(Dy) |->
            IF a = b THEN Zero ELSE Div(One, Add(One, Dy[a][b]))]])

\* Lines 240-246: Q = Qu / sum(Qu), floored.
NormalizeQ(Qu) ==
    Bind(Div(One, MatSum(Qu)), LAMBDA f :
        [a \in 1..Rows(Qu) |-> [b \in 1..Rows(Qu) |->
            Max(Mul(f, Qu[a][b]), GreaterThanZero)]])

\* Lines 248-257: PlogP - sum of P * ln Q.
Divergence(P, Q, PlogP) ==
    Sub(PlogP, MatSum([a \in 1..Rows(P) |-> [b \in 1..Rows(P) |->
                          Mul(P[a][b], Log(Q[a][b]))]]))

\* Lines 259-262: 4 (P - Q) Qu.
Multipliers(P, Q, Qu) ==
    [a \in 1..Rows(P) |-> [b \in 1..Rows(P) |->
        Mul(Mul(FromInt(4), Sub(P[a][b], Q[a][b])), Qu[a][b])]]

RECURSIVE AccumulateTo(_, _, _, _, _, _)
\* Lines 264-273 for one entry (r, k): orig + sum over c <= upto of m * yDiff,
\* added in the order of the loop.
AccumulateTo(orig, mult, Y, r, k, upto) ==
    IF upto = 0 THEN orig
    ELSE Add(AccumulateTo(orig, mult, Y, r, k, upto - 1),
             Mul(mult[r][upto], Sub(Y[r][k], Y[upto][k])))

\* Lines 264-273: the gradient accumulated onto the buffer base.
Accumulate(base, mult, Y) ==
    [r \in 1..Rows(Y) |-> [k \in 1..Cols(Y) |->
        AccumulateTo(base[r][k], mult, Y, r, k, Rows(Y))]]

\* costGradient(P, Y): the divergence, and the gradient buffer after the call.
CostGradient(P, Y, PlogP, dCdY) ==
    Bind(StudentT(Y), LAMBDA Qu :
    Bind(NormalizeQ(Qu), LAMBDA Q :
    Bind(Multipliers(P, Q, Qu), LAMBDA mult :
        [divergence |-> Divergence(P, Q, PlogP),
         dCdY       |-> Accumulate(dCdY, mult, Y)])))

\* Y left as it is.
GradientStepSkipped(Y, dCdY, learningRate) == Y

\* Lines 197-200: Y - learningRate * dCdY.
GradientStep(Y, dCdY, learningRate) ==
    [a \in 1..Rows(Y) |-> [b \in 1..Cols(Y) |->
        Sub(Y[a][b], Mul(learningRate, dCdY[a][b]))]]

\* Lines 202-207: the column sums of Y.
ColumnSums(Y) ==
    [d \in 1..Cols(Y) |-> SeqSum([a \in 1..Rows(Y) |-> Y[a][d]])]

\* Lines 201-210: subtract from every entry the mean of its column.
Recenter(Y, n) ==
    Bind(ColumnSums(Y), LAMBDA ymean :
        [a \in 1..Rows(Y) |-> [b \in 1..Cols(Y) |->
            Sub(Y[a][b], Div(ymean[b], FromInt(n)))]])

\* The loop condition with <= for <.
LoopCondInclusive(iter, maxIter) == iter <= maxIter

\* Line 193: the condition of the optimizer's loop.
LoopCond(iter, maxIter) == iter < maxIter

----------------------------------------------------------------------------
(* Bounds and inputs of the model *)

\* The optimizers are built with maxIter in 0..MaxIter.
MaxIter == 2

\* The configurations NewTSNE is called with.
DimsOutChoices      == {1, 2}
PerplexityChoices   == {One, Div(FromInt(3), FromInt(2))}
LearningRateChoices == {FromInt(100)}

\* The values rand.NormFloat64 returns.
NormSamples == {FromInt(-1), FromInt(2)}

\* Two points 2^59 apart: every precision down to 2^-49 underflows the
\* similarity to zero, and 2^-50 is the first that does not.
FarApart ==
    << <<Zero, Norm(1, 59)>>, <<Norm(1, 59), Zero>> >>

\* The matrices EmbedDistances is called with: one point; three points with
\* asymmetric entries, the first at equal distances from the others; two
\* points far apart; and a matrix that is not square.
DistanceInputs ==
    { IntMatrix(<< <<0>> >>),
      IntMatrix(<< <<0, 1, 1>>, <<2, 0, 4>>, <<9, 4, 0>> >>),
      FarApart,
      IntMatrix(<< <<0, 1>> >>) }

\* The feature matrices EmbedData is called with: three points in the plane.
DataInputs == { IntMatrix(<< <<0, 0>>, <<1, 0>>, <<3, 0>> >>) }

----------------------------------------------------------------------------
(* State *)

VARIABLES
    tsne,        \* the TSNE object: n, dimsOut, perplexity, learningRate, maxIter, P, Y, PlogP, dCdY
    pc,          \* where the embedding call is
    X,           \* EmbedData's argument (Nil in a call of EmbedDistances)
    D,           \* the distance matrix of the call (dDense)
    stepFunc,    \* TRUE when the caller supplied a step function (FALSE: nil)
    i,           \* d2p: the row being calibrated (1-based)
    tries,       \* d2p: steps of the binary search of row i done so far
    beta,        \* d2p: precision of the Gaussian kernel
    betaMin,     \* d2p: lower bound of the search
    betaMax,     \* d2p: upper bound of the search
    iter,        \* run: the iteration index
    divergence,  \* run: the divergence costGradient returned
    result,      \* the matrix the call returned (Nil before)
    \* history, recorded for the properties; no action reads it
    pre,         \* the TSNE object as it was when the call began
    rowTries,    \* d2p: per finished row, the number of search steps it took
    rowP,        \* P as d2p left it before symmetrizing (Nil before)
    y0,          \* the Y initSolution drew
    yStart,      \* Y at the start of the latest iteration
    nCost,       \* number of costGradient calls of the run
    calls,       \* the step function's calls: iter, divergence, embedding, stop
    rowBeta,     \* d2p: per finished row, the beta its last step tried and the beta it then computed
    triedBeta,   \* d2p: the betas the search of the current row has tried, each with whether its entropy was above the target
    callNo,      \* number of Embed calls begun on the object
    yObj,        \* identity of the matrix tsne.Y points to (0: nil)
    returned,    \* the matrices returned so far: identity and value at return
    self,        \* the optimizer instance whose step is being taken
    other        \* the state of the other instance (Nil when there is one)

vars == <<tsne, pc, X, D, stepFunc, i, tries, beta, betaMin, betaMax, iter,
          divergence, result, pre, rowTries, rowP, y0, yStart, nCost, calls,
          rowBeta, triedBeta, callNo, yObj, returned, self, other>>

d2pVars  == <<i, tries, beta, betaMin, betaMax>>
histVars == <<pre, rowTries, rowP, y0, yStart, nCost, calls, rowBeta, triedBeta>>
objVars  == <<callNo, yObj, returned>>
instVars == <<self, other>>

\* NewTSNE(dimensionsOut, perplexity, learningRate, maxIter, verbose).
NewTSNE(dimensionsOut, perplexity, learningRate, maxIter) ==
    [n |-> 0, dimsOut |-> dimensionsOut, perplexity |-> perplexity,
     learningRate |-> learningRate, maxIter |-> maxIter,
     P |-> Nil, Y |-> Nil, PlogP |-> Zero, dCdY |-> Nil]

\* The state of everything but the object before any call.
Idle ==
    /\ pc = "idle"
    /\ X = Nil /\ D = Nil /\ stepFunc = FALSE
    /\ i = 0 /\ tries = 0 /\ beta = Zero /\ betaMin = Zero /\ betaMax = Zero
    /\ iter = 0 /\ divergence = Zero /\ result = Nil
    /\ pre = Nil /\ rowTries = <<>> /\ rowP = Nil /\ y0 = Nil /\ yStart = Nil
    /\ nCost = 0 /\ calls = <<>> /\ rowBeta = <<>> /\ triedBeta = <<>>
    /\ self = 1 /\ other = Nil

Init ==
    /\ \E k \in DimsOutChoices, p \in PerplexityChoices,
          lr \in LearningRateChoices, m \in 0..MaxIter :
            tsne = NewTSNE(k, p, lr, m)
    /\ callNo = 0 /\ yObj = 0 /\ returned = <<>>
    /\ Idle

----------------------------------------------------------------------------
(* EmbedDistances and EmbedData *)

\* No check of the shape of D.
NoShapeCheck(Dm) == TRUE

\* Lines 68-71: D is square.
IsSquare(Dm) == Rows(Dm) = Cols(Dm)

\* Lines 65-74 and 109-127: the check of D, then the start of d2p: P
\* allocated, the search of the first row initialized.
Begin(Dm, cb) ==
    /\ pre' = tsne
    /\ stepFunc' = cb
    /\ callNo' = callNo + 1
    /\ IF ~IsSquare(Dm)
       THEN /\ pc' = "panic"
            /\ D' = D
            /\ UNCHANGED <<tsne, d2pVars>>
       ELSE /\ tsne' = [tsne EXCEPT !.n = Rows(Dm), !.P = NewDense(Rows(Dm), Rows(Dm))]
            /\ D' = Dm
            /\ i' = 1 /\ tries' = 0
            /\ beta' = One /\ betaMin' = NegInf /\ betaMax' = PosInf
            /\ pc' = "d2p"
    /\ UNCHANGED <<iter, divergence, result, rowTries, rowP, y0, yStart, nCost, calls,
                   rowBeta, triedBeta, yObj, returned, instVars>>

\* Lines 65-78: EmbedDistances is called with a matrix of S.
EmbedDistancesOn(S) ==
    /\ pc = "idle"
    /\ \E Dm \in S, cb \in BOOLEAN : Begin(Dm, cb)
    /\ X' = X

EmbedDistances == EmbedDistancesOn(DistanceInputs)

\* X X^T passed on in place of the distances.
GramMatrix(Xm) == MulTranspose(Xm)

\* Line 58: the matrix EmbedData passes to EmbedDistances.
DataDistances(Xm) == SquaredDistanceMatrix(Xm)

\* Lines 56-60: the distances are computed from X, then EmbedDistances runs.
EmbedData ==
    /\ pc = "idle"
    /\ \E Xm \in DataInputs, cb \in BOOLEAN :
       \E Dm \in {DataDistances(Xm)} :
          /\ X' = Xm
          /\ Begin(Dm, cb)

\* The search loop without its bound.
SearchCondUnbounded(t) == TRUE

\* Line 128: the condition of the search loop.
SearchCond(t) == t < MaxBinarySearchSteps

\* Lines 128-179: one step of the binary search of row i; when the row is
\* done, the search of the next row is initialized (lines 124-127).
D2PStep ==
    /\ pc = "d2p"
    /\ \E raw \in {RawRow(D[i], i, beta)} :
       \E row \in {NormalizeRow(raw)} :
       \E Hdiff \in {Sub(Entropy(row), Log(tsne.perplexity))} :
       \E adj \in {AdjustBeta(Hdiff, beta, betaMin, betaMax)} :
       LET done == \/ WithinTolerance(Hdiff, EntropyTolerance)
                   \/ ~SearchCond(tries + 1)
       IN  /\ tsne' = [tsne EXCEPT !.P[i] = row]
           /\ IF ~done
              THEN /\ tries' = tries + 1
                   /\ beta' = adj.beta
                   /\ betaMin' = adj.betaMin
                   /\ betaMax' = adj.betaMax
                   /\ triedBeta' = Append(triedBeta, [beta |-> beta, high |-> Gt(Hdiff, Zero)])
                   /\ UNCHANGED <<i, rowTries, rowBeta, pc>>
              ELSE /\ rowTries' = Append(rowTries, tries + 1)
                   /\ triedBeta' = <<>>
                   /\ rowBeta' = Append(rowBeta, [tried |-> beta, computed |-> adj.beta])
                   /\ i' = i + 1
                   /\ tries' = 0
                   /\ beta' = One /\ betaMin' = NegInf /\ betaMax' = PosInf
                   /\ pc' = IF i < tsne.n THEN "d2p" ELSE "symmetrize"
    /\ UNCHANGED <<X, D, stepFunc, iter, divergence, result,
                   pre, rowP, y0, yStart, nCost, calls, objVars, instVars>>

\* Lines 181-186: the end of d2p.
D2PSymmetrize ==
    /\ pc = "symmetrize"
    /\ rowP' = tsne.P
    /\ tsne' = [tsne EXCEPT !.P = Symmetrize(tsne.P, tsne.n)]
    /\ pc' = "initSolution"
    /\ UNCHANGED <<X, D, stepFunc, d2pVars, iter, divergence, result,
                   pre, rowTries, y0, yStart, nCost, calls, rowBeta, triedBeta, objVars, instVars>>

\* RandNormal(mu, std) for the sample z of rand.NormFloat64.
RandNormal(mu, std, z) == Add(mu, Mul(z, std))

\* The matrix Y already holds is used again when there is one.
ReuseY(obj) == IF obj = 0 THEN 1 ELSE obj

\* Line 84: mat.NewDense allocates a matrix no earlier pointer refers to.
AllocY(obj) == obj + 1

\* Lines 81-100: Y drawn, the gradient buffer allocated, PlogP computed;
\* then run begins with iter = 0.
InitSolution ==
    /\ pc = "initSolution"
    /\ \E z \in [1..tsne.n -> [1..tsne.dimsOut -> NormSamples]] :
          \E Y \in {[a \in 1..tsne.n |-> [b \in 1..tsne.dimsOut |->
                       RandNormal(Zero, InitialStandardDeviation, z[a][b])]]} :
              /\ tsne' = [tsne EXCEPT !.Y = Y,
                                      !.dCdY = NewDense(tsne.n, tsne.dimsOut),
                                      !.PlogP = ComputePlogP(tsne.P)]
              /\ y0' = Y
    /\ yObj' = AllocY(yObj)
    /\ iter' = 0
    /\ pc' = "run"
    /\ UNCHANGED <<X, D, stepFunc, d2pVars, divergence, result,
                   pre, rowTries, rowP, yStart, nCost, calls, rowBeta, triedBeta,
                   callNo, returned, instVars>>

\* Lines 193-211: one iteration up to the call of the step function.
RunIter ==
    /\ pc = "run"
    /\ LoopCond(iter, tsne.maxIter)
    /\ \E cg \in {CostGradient(tsne.P, tsne.Y, tsne.PlogP, tsne.dCdY)} :
       \E Y1 \in {GradientStep(tsne.Y, cg.dCdY, tsne.learningRate)} :
           /\ divergence' = cg.divergence
           /\ tsne' = [tsne EXCEPT !.dCdY = cg.dCdY, !.Y = Recenter(Y1, tsne.n)]
    /\ yStart' = tsne.Y
    /\ nCost' = nCost + 1
    /\ IF stepFunc
       THEN pc' = "stepFunc" /\ iter' = iter
       ELSE pc' = "run" /\ iter' = iter + 1
    /\ UNCHANGED <<X, D, stepFunc, d2pVars, result, pre, rowTries, rowP, y0, calls,
                   rowBeta, triedBeta, objVars, instVars>>

\* The step function's answer ignored.
KeepRunning(stop) == FALSE

\* Lines 214-216: the loop is left when the step function returned true.
Stops(stop) == stop

\* The iteration index passed one-based.
StepFuncIterOneBased(it) == it + 1

\* Line 213: the iteration index passed to the step function.
StepFuncIter(it) == it

\* Lines 212-217: the step function is called and returns stop.
StepFunc ==
    /\ pc = "stepFunc"
    /\ \E stop \in BOOLEAN :
          /\ calls' = Append(calls, [iter |-> StepFuncIter(iter), divergence |-> divergence,
                                     embedding |-> tsne.Y, stop |-> stop])
          /\ IF Stops(stop)
             THEN pc' = "return" /\ iter' = iter
             ELSE pc' = "run" /\ iter' = iter + 1
    /\ UNCHANGED <<tsne, X, D, stepFunc, d2pVars, divergence, result,
                   pre, rowTries, rowP, y0, yStart, nCost, rowBeta, triedBeta, objVars, instVars>>

\* Line 193: the loop ends after maxIter iterations.
RunExit ==
    /\ pc = "run"
    /\ ~LoopCond(iter, tsne.maxIter)
    /\ pc' = "return"
    /\ UNCHANGED <<tsne, X, D, stepFunc, d2pVars, iter, divergence, result, histVars,
                   objVars, instVars>>

\* Line 77: EmbedDistances returns tsne.Y.
Return ==
    /\ pc = "return"
    /\ result' = tsne.Y
    /\ returned' = Append(returned, [obj |-> yObj, value |-> tsne.Y])
    /\ pc' = "done"
    /\ UNCHANGED <<tsne, X, D, stepFunc, d2pVars, iter, divergence, histVars,
                   callNo, yObj, instVars>>

Next ==
    \/ EmbedDistances
    \/ EmbedData
    \/ D2PStep
    \/ D2PSymmetrize
    \/ InitSolution
    \/ RunIter
    \/ StepFunc
    \/ RunExit
    \/ Return

Spec == Init /\ [][Next]_vars

----------------------------------------------------------------------------
(* d2p and run as functions: what a call computes when it runs from its    *)
(* first statement to its last.                                            *)

RECURSIVE SearchRow(_, _, _, _, _, _, _)
\* Lines 128-179: the row the search of row i leaves in P, from its step
\* t + 1 on, started with beta b and the bounds bMin and bMax.
SearchRow(Di, i_, Htarget, b, bMin, bMax, t) ==
    Bind(RawRow(Di, i_, b), LAMBDA raw :
    Bind(NormalizeRow(raw), LAMBDA row :
    Bind(Sub(Entropy(row), Htarget), LAMBDA Hdiff :
        IF WithinTolerance(Hdiff, EntropyTolerance) \/ ~SearchCond(t + 1)
        THEN row
        ELSE Bind(AdjustBeta(Hdiff, b, bMin, bMax), LAMBDA adj :
                 SearchRow(Di, i_, Htarget, adj.beta, adj.betaMin, adj.betaMax, t + 1)))))

\* Lines 106-187: the P that d2p computes from D.
D2P(Dm, n, perplexity) ==
    Bind(Log(perplexity), LAMBDA Htarget :
    Bind([a \in 1..n |-> SearchRow(Dm[a], a, Htarget, One, NegInf, PosInf, 0)],
         LAMBDA rows : Symmetrize(rows, n)))

RECURSIVE RunFrom(_, _, _, _, _, _)
\* Lines 191-219: the Y and the gradient buffer that run leaves, from
\* iteration it on; t holds the fields of the object, cb tells whether a
\* step function was given and stops[k + 1] is its answer at iteration k.
RunFrom(t, Y, dCdY, it, cb, stops) ==
    IF ~LoopCond(it, t.maxIter)
    THEN [Y |-> Y, dCdY |-> dCdY]
    ELSE Bind(CostGradient(t.P, Y, t.PlogP, dCdY), LAMBDA cg :
         Bind(GradientStep(Y, cg.dCdY, t.learningRate), LAMBDA Y1 :
         Bind(Recenter(Y1, t.n), LAMBDA Y2 :
             IF cb /\ Stops(stops[it + 1])
             THEN [Y |-> Y2, dCdY |-> cg.dCdY]
             ELSE RunFrom(t, Y2, cg.dCdY, it + 1, cb, stops))))

\* Lines 65-78: the object after EmbedDistances(Dm, cb) on an object with
\* the parameters of t, for the draw Y0 of initSolution.
ObjectAfter(t, Dm, Y0, cb, stops) ==
    Bind(D2P(Dm, Rows(Dm), t.perplexity), LAMBDA P :
    Bind([t EXCEPT !.n = Rows(Dm), !.P = P, !.PlogP = ComputePlogP(P)], LAMBDA t1 :
    Bind(RunFrom(t1, Y0, NewDense(Rows(Dm), t.dimsOut), 0, cb, stops), LAMBDA r :
        [t1 EXCEPT !.Y = r.Y, !.dCdY = r.dCdY])))

\* Line 77: the embedding that call returns.
EmbedDistancesOf(t, Dm, Y0, cb, stops) == ObjectAfter(t, Dm, Y0, cb, stops).Y

----------------------------------------------------------------------------
(* A call on an object that an earlier call has used *)

\* The earlier call: EmbedDistances(PrevDistances, nil), Y drawn from PrevDraws.
PrevDistances == IntMatrix(<< <<0, 1, 1>>, <<2, 0, 4>>, <<9, 4, 0>> >>)

PrevDraws == { << <<-1>>, <<2>>, <<2>> >>, << <<2>>, <<2>>, <<-1>> >> }

InitReuse ==
    /\ \E m \in 1..MaxIter, z \in PrevDraws :
       \E Y0 \in {[a \in 1..3 |-> [b \in 1..1 |->
                      RandNormal(Zero, InitialStandardDeviation, FromInt(z[a][b]))]]} :
       \E obj \in {ObjectAfter(NewTSNE(1, One, FromInt(100), m), PrevDistances, Y0,
                                FALSE, <<>>)} :
           /\ tsne = obj
           /\ returned = <<[obj |-> 1, value |-> obj.Y]>>
    /\ callNo = 1 /\ yObj = 1
    /\ Idle

SpecReuse == InitReuse /\ [][Next]_vars

----------------------------------------------------------------------------
(* Two optimizers, each in a call of EmbedDistances, their steps interleaved *)

\* The distance matrices of the calls of instance 1 and of instance 2.
PairInputs ==
    << IntMatrix(<< <<0, 1>>, <<1, 0>> >>),
       IntMatrix(<< <<0, 1, 49>>, <<1, 0, 36>>, <<49, 36, 0>> >>) >>

\* The state of the instance whose step is being taken.
Running ==
    [tsne |-> tsne, pc |-> pc, X |-> X, D |-> D, stepFunc |-> stepFunc,
     i |-> i, tries |-> tries, beta |-> beta, betaMin |-> betaMin, betaMax |-> betaMax,
     iter |-> iter, divergence |-> divergence, result |-> result,
     pre |-> pre, rowTries |-> rowTries, rowP |-> rowP, y0 |-> y0, yStart |-> yStart,
     nCost |-> nCost, calls |-> calls, rowBeta |-> rowBeta, triedBeta |-> triedBeta,
     callNo |-> callNo, yObj |-> yObj, returned |-> returned]

\* One TSNE object for all the instances.
SingleObject(own, running) == running

\* Line 44: new(TSNE): the fields an instance works on are those of its
\* own object, whatever object ran before.
ObjectOf(own, running) == own

InitPair ==
    /\ tsne = NewTSNE(1, One, FromInt(100), 1)
    /\ callNo = 0 /\ yObj = 0 /\ returned = <<>>
    /\ pc = "idle"
    /\ X = Nil /\ D = Nil /\ stepFunc = FALSE
    /\ i = 0 /\ tries = 0 /\ beta = Zero /\ betaMin = Zero /\ betaMax = Zero
    /\ iter = 0 /\ divergence = Zero /\ result = Nil
    /\ pre = Nil /\ rowTries = <<>> /\ rowP = Nil /\ y0 = Nil /\ yStart = Nil
    /\ nCost = 0 /\ calls = <<>> /\ rowBeta = <<>> /\ triedBeta = <<>>
    /\ self = 1
    /\ other = Running

PairEmbedDistances == EmbedDistancesOn({PairInputs[self]})

\* The scheduler passes from one instance to the other.
Switch ==
    /\ other # Nil
    /\ self' = 3 - self
    /\ other' = Running
    /\ tsne' = ObjectOf(other.tsne, tsne)
    /\ pc' = other.pc /\ X' = other.X /\ D' = other.D /\ stepFunc' = other.stepFunc
    /\ i' = other.i /\ tries' = other.tries
    /\ beta' = other.beta /\ betaMin' = other.betaMin /\ betaMax' = other.betaMax
    /\ iter' = other.iter /\ divergence' = other.divergence /\ result' = other.result
    /\ pre' = other.pre /\ rowTries' = other.rowTries /\ rowP' = other.rowP
    /\ y0' = other.y0 /\ yStart' = other.yStart
    /\ nCost' = other.nCost /\ calls' = other.calls /\ rowBeta' = other.rowBeta /\ triedBeta' = other.triedBeta
    /\ callNo' = other.callNo /\ yObj' = other.yObj /\ returned' = other.returned

NextPair ==
    \/ PairEmbedDistances
    \/ D2PStep
    \/ D2PSymmetrize
    \/ InitSolution
    \/ RunIter
    \/ StepFunc
    \/ RunExit
    \/ Return
    \/ Switch

SpecPair == InitPair /\ [][NextPair]_vars

----------------------------------------------------------------------------
(* SquaredDistanceMatrix alone, on every small integer feature matrix *)

\* Feature matrices have up to MaxPoints rows and up to MaxDims columns.
MaxPoints == 3
MaxDims   == 2

\* The points a feature matrix is built from; its first d coordinates are used.
\* (2,3), (8,7), (2,2) are the rows of TestSquaredDistanceMatrix.
PointChoices == {<<2, 3, 1, 0>>, <<8, 7, -4, 2>>, <<2, 2, 0, -3>>, <<-1, 0, 5, 1>>}

InitSDM ==
    /\ tsne = NewTSNE(1, One, One, 0)
    /\ pc = "idle"
    /\ \E n \in 1..MaxPoints, d \in 1..MaxDims :
          \E M \in [1..n -> {SubSeq(p, 1, d) : p \in PointChoices}] :
              X = IntMatrix(M)
    /\ D = Nil /\ stepFunc = FALSE
    /\ i = 0 /\ tries = 0 /\ beta = Zero /\ betaMin = Zero /\ betaMax = Zero
    /\ iter = 0 /\ divergence = Zero /\ result = Nil
    /\ pre = Nil /\ rowTries = <<>> /\ rowP = Nil /\ y0 = Nil /\ yStart = Nil
    /\ nCost = 0 /\ calls = <<>> /\ rowBeta = <<>> /\ triedBeta = <<>>
    /\ callNo = 0 /\ yObj = 0 /\ returned = <<>>
    /\ self = 1 /\ other = Nil

\* D := SquaredDistanceMatrix(X).
CallSDM ==
    /\ pc = "idle"
    /\ D' = SquaredDistanceMatrix(X)
    /\ pc' = "sdm"
    /\ UNCHANGED <<tsne, X, stepFunc, d2pVars, iter, divergence, result, histVars,
                   objVars, instVars>>

NextSDM == CallSDM

SpecSDM == InitSDM /\ [][NextSDM]_vars

----------------------------------------------------------------------------
(* Properties *)

\* The integer an integral float stands for.
IntOf(x) == IF x[2] >= 0 THEN x[1] * Pow2(x[2]) ELSE x[1] \div Pow2(-x[2])

RECURSIVE IntSumTo(_, _)
IntSumTo(s, k) == IF k = 0 THEN 0 ELSE IntSumTo(s, k - 1) + s[k]

\* Sum over k of (u[k] - v[k])^2, in the integers.
RefSquaredDistance(u, v) ==
    IntSumTo([k \in 1..Len(u) |-> (IntOf(u[k]) - IntOf(v[k])) * (IntOf(u[k]) - IntOf(v[k]))],
             Len(u))

Leq(x, y) == Lt(x, y) \/ Eq(x, y)

AfterD2P == pc \in {"initSolution", "run", "stepFunc", "return", "done"}

LastCall == calls[Len(calls)]

\* C1: for every integer feature matrix X, SquaredDistanceMatrix(X) is the
\* n x n matrix whose entry (i, j) is the sum over k of (X[i][k] - X[j][k])^2;
\* so it is symmetric with an exactly zero diagonal.
C1_SquaredDistances ==
    pc = "sdm" =>
        /\ Rows(D) = Rows(X) /\ Cols(D) = Rows(X)
        /\ \A a, b \in 1..Rows(X) :
              /\ D[a][b] = FromInt(RefSquaredDistance(X[a], X[b]))
              /\ D[a][b] = D[b][a]
        /\ \A a \in 1..Rows(X) : D[a][a] = Zero

\* The rows (2,3), (8,7), (2,2) of the test and their distances 52, 1, 61.
C1_Witness ==
    /\ pc = "sdm"
    /\ X = IntMatrix(<< <<2, 3>>, <<8, 7>>, <<2, 2>> >>)
    /\ D = IntMatrix(<< <<0, 52, 1>>, <<52, 0, 61>>, <<1, 61, 0>> >>)

\* C2: once the step function has returned true at iteration k, there is no
\* cost/gradient computation, no update of Y and no call of the step function
\* for a later iteration, and the embedding returned is the one that call was
\* given.
C2_EarlyStop ==
    (calls # <<>> /\ LastCall.stop) =>
        /\ pc \in {"return", "done"}
        /\ nCost = LastCall.iter + 1
        /\ Len(calls) = LastCall.iter + 1
        /\ tsne.Y = LastCall.embedding
        /\ (pc = "done" => result = LastCall.embedding)

\* A run of three points stopped at iteration 0 of 2 has returned.
C2_Witness ==
    /\ pc = "done" /\ tsne.n = 3 /\ tsne.maxIter = 2
    /\ Len(calls) = 1 /\ calls[1].stop /\ calls[1].iter = 0
    /\ result = calls[1].embedding /\ result # y0

\* C3: the step function is called once per completed iteration, with the
\* indices 0, 1, 2, ... in order; in all maxIter times if it never returns
\* true, and k + 1 times if it first returns true at iteration k.
C3_OncePerIteration ==
    /\ \A j \in 1..Len(calls) : calls[j].iter = j - 1
    /\ \A j \in 1..(Len(calls) - 1) : ~calls[j].stop
    /\ ~stepFunc => calls = <<>>
    /\ stepFunc => Len(calls) = (IF pc = "stepFunc" THEN nCost - 1 ELSE nCost)
    /\ (pc = "done" /\ stepFunc /\ (calls = <<>> \/ ~LastCall.stop))
          => Len(calls) = tsne.maxIter

\* A run whose step function never returned true was called maxIter = 2 times.
C3_Witness ==
    /\ pc = "done" /\ stepFunc /\ tsne.maxIter = 2
    /\ Len(calls) = 2 /\ ~calls[1].stop /\ ~calls[2].stop
    /\ calls[1].embedding # calls[2].embedding

\* C4: the gradient applied in an iteration is computed from P and from the Y
\* at the start of that iteration alone, accumulated from a zero buffer.
C4_FreshGradient ==
    nCost > 0 =>
        tsne.dCdY = CostGradient(tsne.P, yStart, tsne.PlogP,
                                 NewDense(tsne.n, tsne.dimsOut)).dCdY

\* The column sums of Y are zero up to rounding: each is at most 2^-8 of
\* the largest entry of its column in absolute value.
ColumnsCentered(Y) ==
    \A b \in 1..Cols(Y) :
        \E a \in 1..Rows(Y) :
            Leq(Abs(ColumnSums(Y)[b]), Mul(Abs(Y[a][b]), Norm(1, -8)))

\* C5 as stated: after a run of 0 iterations the embedding returned is the
\* initial draw and each of its columns has mean zero.
C5_ZeroIterationsCentered ==
    (pc = "done" /\ tsne.maxIter = 0) => (result = y0 /\ ColumnsCentered(result))

\* C5, amended: a run of 0 iterations returns the initial draw as it was drawn
\* (no cost/gradient computation, no call of the step function, no centering).
C5_ZeroIterationsReturnDraw ==
    (pc = "done" /\ tsne.maxIter = 0) =>
        (result = y0 /\ nCost = 0 /\ calls = <<>>)

\* A run of 0 iterations on three points returned a draw that is not centered.
C5_Witness ==
    /\ pc = "done" /\ tsne.maxIter = 0 /\ tsne.n = 3 /\ tsne.dimsOut = 2
    /\ result = y0 /\ ~ColumnsCentered(result)

\* C6: after every completed iteration each column of Y has mean zero.
C6_CenteredAfterIteration ==
    nCost > 0 => ColumnsCentered(tsne.Y)

\* C7: a distance matrix that is not square makes EmbedDistances panic before
\* any computation: no search step, no draw, no iteration, no call of the step
\* function, and the fields of the optimizer are as they were before the call.
\* A call that goes on has a square matrix.
C7_NotSquarePanics ==
    /\ pc = "panic" =>
          /\ tsne = pre
          /\ rowTries = <<>> /\ rowP = Nil /\ y0 = Nil
          /\ nCost = 0 /\ calls = <<>> /\ result = Nil
    /\ pc \notin {"idle", "panic"} => (Rows(D) = Cols(D) /\ tsne.n = Rows(D))

\* The call with a 1 x 2 matrix has panicked, with a step function supplied.
C7_Witness == pc = "panic" /\ stepFunc /\ tsne.P = Nil /\ tsne.n = 0

\* C8: the P that d2p produces is symmetric and none of its entries is below
\* the floor 1e-12, so none is zero.
C8_SymmetricFloored ==
    AfterD2P =>
        \A a, b \in 1..tsne.n :
            /\ tsne.P[a][b] = tsne.P[b][a]
            /\ Leq(GreaterThanZero, tsne.P[a][b])
            /\ tsne.P[a][b] # Zero

\* d2p has finished on the asymmetric distances of three points: the rows
\* were not symmetric before, and the diagonal is at the floor.
C8_Witness ==
    /\ pc = "initSolution" /\ tsne.n = 3
    /\ D[1][2] # D[2][1]
    /\ rowP[1][2] # rowP[2][1]
    /\ tsne.P[1][1] = GreaterThanZero
    /\ Gt(tsne.P[1][2], GreaterThanZero)

\* What "approximately 1" allows.
SumTolerance == Div(One, FromInt(100))

SumsToOne(P) == Leq(Abs(Sub(MatSum(P), One)), SumTolerance)

\* Row a of P had a nonzero sum of similarities in its last search step.
RowCalibrated(a) == \E b \in 1..tsne.n : rowP[a][b] # Zero

\* C9 as stated: the entries of the P that d2p produces sum to about 1.
C9_SumsToOne == AfterD2P => SumsToOne(tsne.P)

\* C9, amended: when no row had a zero sum of similarities in its last search
\* step, each row sums to about 1 before symmetrization and the entries of
\* the P that d2p produces sum to about 1.
C9_SumsToOneIfCalibrated ==
    (AfterD2P /\ \A a \in 1..tsne.n : RowCalibrated(a)) =>
        /\ \A a \in 1..tsne.n :
              Leq(Abs(Sub(SeqSum(rowP[a]), One)), SumTolerance)
        /\ SumsToOne(tsne.P)

\* d2p has finished on three points, every row calibrated.
C9_Witness ==
    /\ pc = "initSolution" /\ tsne.n = 3
    /\ \A a \in 1..tsne.n : RowCalibrated(a)
    /\ SumsToOne(tsne.P)

\* The row of P that the search of row a left (before symmetrization).
KeptRow(a) == IF rowP = Nil THEN tsne.P[a] ELSE rowP[a]

RowWithinTolerance(a) ==
    Lt(Abs(Sub(Entropy(KeptRow(a)), Log(tsne.perplexity))), EntropyTolerance)

\* C10: when the search of a row has ended, the entropy of the row kept is
\* within 1e-5 of ln(perplexity), or the search took all its 50 steps.
C10_ToleranceOrExhausted ==
    \A a \in 1..Len(rowTries) :
        RowWithinTolerance(a) \/ rowTries[a] = MaxBinarySearchSteps

\* One row ended within tolerance after a search of several steps, another
\* took 50 steps and is not within tolerance.
C10_Witness ==
    /\ \E a \in 1..Len(rowTries) :
          RowWithinTolerance(a) /\ rowTries[a] > 1 /\ rowTries[a] < MaxBinarySearchSteps
    /\ \E a \in 1..Len(rowTries) :
          ~RowWithinTolerance(a) /\ rowTries[a] = MaxBinarySearchSteps

\* Every entry of M is a finite number.
AllFinite(M) == \A a \in 1..Rows(M) : \A b \in 1..Cols(M) : IsFinite(M[a][b])

\* C11: the Q that costGradient computes has only finite entries >= 1e-12,
\* also when the unnormalized affinities sum to zero (n = 1), and the
\* divergence and the gradient it returns are finite.
C11_QFiniteFloored ==
    nCost > 0 =>
        /\ \E Q \in {NormalizeQ(StudentT(yStart))} :
              \A a, b \in 1..tsne.n :
                  IsFinite(Q[a][b]) /\ Leq(GreaterThanZero, Q[a][b])
        /\ IsFinite(divergence)
        /\ AllFinite(tsne.dCdY)

\* An upper bound of the number of steps the call has left: the steps of the
\* search of the rows still to do, two steps per iteration still to run
\* (the iteration and the call of the step function), and the return.
StepsLeft ==
    CASE pc \in {"done", "panic", "idle", "sdm"} -> 0
      [] pc = "return" -> 1
      [] pc = "run" -> 2 + 2 * (tsne.maxIter - iter)
      [] pc = "stepFunc" -> 1 + 2 * (tsne.maxIter - iter)
      [] pc = "initSolution" -> 3 + 2 * tsne.maxIter
      [] pc = "symmetrize" -> 4 + 2 * tsne.maxIter
      [] pc = "d2p" -> 4 + 2 * tsne.maxIter
                         + (tsne.n - i) * MaxBinarySearchSteps
                         + (MaxBinarySearchSteps - tries)

\* C12: an embedding call ends, the step function returning: the search of a
\* row takes at most 50 steps, each row is searched once, the optimizer makes
\* at most maxIter iterations with at most one call of the step function
\* each, and every step of a call lowers the number of steps it has left,
\* which is never negative.
C12_Terminates ==
    /\ [](/\ tries < MaxBinarySearchSteps
          /\ Len(rowTries) <= tsne.n
          /\ \A a \in 1..Len(rowTries) : rowTries[a] <= MaxBinarySearchSteps
          /\ nCost <= tsne.maxIter
          /\ Len(calls) <= nCost
          /\ StepsLeft >= 0)
    /\ [][pc # "idle" => StepsLeft' < StepsLeft]_vars

\* A call has returned after a search that took all 50 steps and after all
\* maxIter = 2 iterations, the step function never returning true.
C12_Witness ==
    /\ pc = "done" /\ tsne.n = 3 /\ tsne.maxIter = 2 /\ nCost = 2
    /\ \E a \in 1..Len(rowTries) : rowTries[a] = MaxBinarySearchSteps
    /\ Len(calls) = 2 /\ ~calls[2].stop

\* The sum over all entries of P * ln(P).
RefPlogP(P) ==
    MatSum([a \in 1..Rows(P) |-> [b \in 1..Cols(P) |-> Mul(P[a][b], Log(P[a][b]))]])

\* A step of run, of the step function or of the return leaves P and PlogP.
PFrozen ==
    pc \in {"run", "stepFunc", "return"} =>
        (tsne.P' = tsne.P /\ tsne.PlogP' = tsne.PlogP)

\* C13: once d2p and initSolution have computed them, no iteration and no
\* call of the step function changes P or PlogP; PlogP is the sum of
\* P * ln(P) of the run's P, and the divergence of every iteration is
\* computed with it.
C13_PImmutable ==
    /\ [](pc \in {"run", "stepFunc", "return", "done"} =>
             /\ tsne.P = Symmetrize(rowP, tsne.n)
             /\ \E PlP \in {RefPlogP(tsne.P)} :
                   /\ tsne.PlogP = PlP
                   /\ (nCost > 0 =>
                          \E Q \in {NormalizeQ(StudentT(yStart))} :
                              divergence = Divergence(tsne.P, Q, PlP)))
    /\ [][PFrozen]_vars

\* Two iterations have run on three points and the call has returned.
C13_Witness ==
    /\ pc = "done" /\ tsne.n = 3 /\ nCost = 2 /\ Len(calls) = 2
    /\ tsne.PlogP = RefPlogP(tsne.P) /\ tsne.PlogP # Zero
    /\ IsFinite(divergence) /\ calls[1].divergence # calls[2].divergence

\* The answers of the step function so far.
StopsOf(cs) == [j \in 1..Len(cs) |-> cs[j].stop]

\* C14: a call EmbedData(X, cb) computes what EmbedDistances(D, cb) computes
\* for D = SquaredDistanceMatrix(X), the draws and the step function's
\* answers being the same: the same P, the same embedding at each call of the
\* step function and the same embedding returned.
C14_EmbedDataAsDistances ==
    X # Nil =>
        /\ pc = "initSolution" =>
              \E Dm \in {SquaredDistanceMatrix(X)} :
                  tsne.P = D2P(Dm, Rows(Dm), tsne.perplexity)
        /\ pc \in {"stepFunc", "done"} =>
              \E t \in {[pre EXCEPT !.n = Rows(X), !.P = Symmetrize(rowP, Rows(X)),
                                     !.PlogP = ComputePlogP(tsne.P)]} :
              \E Z \in {NewDense(t.n, t.dimsOut)} :
                  /\ tsne.P = t.P
                  /\ pc = "stepFunc" =>
                        /\ tsne.Y = RunFrom([t EXCEPT !.maxIter = iter + 1], y0, Z, 0,
                                            FALSE, <<>>).Y
                        /\ \E Q \in {NormalizeQ(StudentT(yStart))} :
                              divergence = Divergence(t.P, Q, t.PlogP)
                  /\ pc = "done" =>
                        result = RunFrom(t, y0, Z, 0, stepFunc, StopsOf(calls)).Y

\* EmbedData on three points has returned after two iterations.
C14_Witness ==
    /\ X # Nil /\ pc = "done" /\ tsne.n = 3 /\ nCost = 2 /\ Len(calls) = 2
    /\ result # y0
    /\ result = EmbedDistancesOf(pre, SquaredDistanceMatrix(X), y0, stepFunc, StopsOf(calls))

\* A new object with the parameters of t.
FreshLike(t) == NewTSNE(t.dimsOut, t.perplexity, t.learningRate, t.maxIter)

\* C15: a call on an object that an earlier call has used starts from a new
\* P and the n of its own input, a newly drawn n x k Y and an all-zero
\* gradient buffer; what it computes and returns is what a new object with
\* the same parameters computes and returns, and a matrix that an earlier
\* call returned still holds the values it was returned with.
C15_Reinitialized ==
    /\ (pc = "d2p" /\ i = 1 /\ tries = 0) =>
          (tsne.n = Rows(D) /\ tsne.P = NewDense(Rows(D), Rows(D)))
    /\ (pc = "run" /\ nCost = 0) =>
          \E t \in {ObjectAfter([FreshLike(pre) EXCEPT !.maxIter = 0], D, y0, FALSE, <<>>)} :
              /\ tsne.n = t.n /\ tsne.P = t.P /\ tsne.PlogP = t.PlogP
              /\ tsne.Y = y0
              /\ Rows(tsne.Y) = tsne.n /\ Cols(tsne.Y) = tsne.dimsOut
              /\ tsne.dCdY = NewDense(tsne.n, tsne.dimsOut)
    /\ pc = "done" =>
          \E t \in {ObjectAfter(FreshLike(pre), D, y0, stepFunc, StopsOf(calls))} :
              result = t.Y /\ tsne = t
    /\ \A k \in 1..Len(returned) :
          returned[k].obj = yObj => tsne.Y = returned[k].value

\* The second call on an object, made with EmbedData, has returned; the
\* first left another P and a gradient buffer that was not zero.
C15_Witness ==
    /\ pc = "done" /\ callNo = 2 /\ Len(returned) = 2 /\ X # Nil
    /\ pre.P # tsne.P /\ pre.dCdY # NewDense(pre.n, pre.dimsOut)
    /\ returned[1].value = pre.Y /\ returned[2].value = result
    /\ result # pre.Y

\* C16: with two instances in calls of EmbedDistances, their steps
\* interleaved in any order, the state of an instance after each of its
\* steps is the state it has when it runs alone: the rows of P searched so
\* far, then P, then the Y and the gradient buffer after each iteration and
\* the embedding returned are those that d2p and run compute from the
\* instance's own D, draw and step function's answers.
C16_InstancesIndependent ==
    (other # Nil /\ pc # "idle") =>
        /\ tsne.n = Rows(D) /\ Rows(tsne.P) = Rows(D)
        /\ [tsne EXCEPT !.n = 0, !.P = Nil, !.Y = Nil, !.PlogP = Zero, !.dCdY = Nil]
              = FreshLike(pre)
        /\ pc = "d2p" =>
              \E Htarget \in {Log(tsne.perplexity)} :
                  \A a \in 1..Len(rowTries) :
                      tsne.P[a] = SearchRow(D[a], a, Htarget, One, NegInf, PosInf, 0)
        /\ pc = "initSolution" => tsne.P = D2P(D, Rows(D), tsne.perplexity)
        /\ pc \in {"run", "stepFunc", "return", "done"} =>
              \E P \in {Symmetrize(rowP, Rows(D))} :
              \E t \in {[FreshLike(pre) EXCEPT !.n = Rows(D), !.P = P,
                             !.PlogP = ComputePlogP(P), !.maxIter = nCost]} :
              \E r \in {RunFrom(t, y0, NewDense(t.n, t.dimsOut), 0, FALSE, <<>>)} :
                  /\ tsne.P = P /\ tsne.PlogP = t.PlogP
                  /\ tsne.Y = r.Y /\ tsne.dCdY = r.dCdY
                  /\ pc = "done" => result = r.Y

\* One instance has returned from its call on three points while the call
\* of the other, on two points, is at its step function.
C16_Witness ==
    /\ other # Nil /\ pc = "done" /\ tsne.n = 3 /\ nCost = 1
    /\ other.pc = "stepFunc" /\ other.tsne.n = 2 /\ other.nCost = 1
    /\ result # y0 /\ other.tsne.Y # other.y0

\* The beta that follows b when the entropy of the row is H: twice b, or
\* the midpoint of b and the upper bound, when H is above the target; half
\* of b, or the midpoint of b and the lower bound, otherwise.
NextBeta(H, target, b, bMin, bMax) ==
    IF Gt(H, target)
    THEN IF bMax = PosInf THEN Mul(b, FromInt(2)) ELSE Div(Add(b, bMax), FromInt(2))
    ELSE IF bMin = NegInf THEN Div(b, FromInt(2)) ELSE Div(Add(b, bMin), FromInt(2))

\* A step of the search moves beta and its bounds as the entropy of the row
\* it stored tells: within a row, and at the row's last step.
BetaMoves ==
    pc = "d2p" =>
        \E H \in {Entropy(tsne.P'[i])}, target \in {Log(tsne.perplexity)} :
            IF i' = i /\ pc' = "d2p"
            THEN /\ beta' = NextBeta(H, target, beta, betaMin, betaMax)
                 /\ IF Gt(H, target)
                    THEN betaMin' = beta /\ betaMax' = betaMax
                    ELSE betaMax' = beta /\ betaMin' = betaMin
            ELSE /\ rowBeta'[i].tried = beta
                 /\ rowBeta'[i].computed = NextBeta(H, target, beta, betaMin, betaMax)

\* C17: the search of every row starts from beta = 1 with no bounds, and
\* each of its steps moves beta in the direction the entropy gives: H above
\* ln(perplexity) makes beta the lower bound and doubles it, or takes the
\* midpoint with the upper bound when there is one; otherwise beta becomes
\* the upper bound and is halved, or the midpoint with the lower bound taken.
C17_BetaDirection ==
    /\ []((pc = "d2p" /\ tries = 0) =>
             (beta = One /\ betaMin = NegInf /\ betaMax = PosInf))
    /\ [][BetaMoves]_vars

\* The search of a row has doubled beta and then, with both bounds set, is
\* taking midpoints.
C17_Witness ==
    /\ pc = "d2p" /\ tries > 3
    /\ IsFinite(betaMin) /\ IsFinite(betaMax)
    /\ Gt(betaMin, One) /\ Lt(betaMin, beta) /\ Lt(beta, betaMax)

\* The row of probabilities that the precision b induces for row a of D.
RowInducedBy(a, b) ==
    \E raw \in {[j \in 1..tsne.n |->
                    IF j = a THEN Zero ELSE Exp(Neg(Mul(D[a][j], b)))]} :
        \E s \in {SeqSum(raw)} :
            KeptRow(a) = [j \in 1..tsne.n |->
                             IF s = Zero THEN Zero ELSE Div(raw[j], s)]

Exhausted(a) == rowTries[a] = MaxBinarySearchSteps /\ ~RowWithinTolerance(a)

\* C18 as stated: a row whose search took all 50 steps without reaching the
\* tolerance is kept as induced by the beta the search computed last, and
\* the call goes on without an error.
C18_KeptRowOfLastComputedBeta ==
    \A a \in 1..Len(rowTries) :
        Exhausted(a) => (pc # "panic" /\ RowInducedBy(a, rowBeta[a].computed))

\* C18, amended: the row kept is the one the 50th step computed, from the
\* beta that step began with (the beta computed by the 49th step); the beta
\* the 50th step computes is never used. All its entries are finite, and the
\* call goes on to the next row or to the symmetrization.
C18_KeptRowOfLastTriedBeta ==
    \A a \in 1..Len(rowTries) :
        Exhausted(a) =>
            /\ pc # "panic"
            /\ RowInducedBy(a, rowBeta[a].tried)
            /\ \A b \in 1..tsne.n : IsFinite(KeptRow(a)[b])
            /\ (pc = "d2p" => i > a)

\* The call has returned after the search of the first of two far-apart
\* points took 50 steps: the row kept is the all-zero row of the beta the
\* 50th step tried, and the beta that step computed induces another row.
C18_Witness ==
    /\ pc = "done" /\ tsne.n = 2 /\ Exhausted(1)
    /\ rowBeta[1].tried # rowBeta[1].computed
    /\ RowInducedBy(1, rowBeta[1].tried)
    /\ ~RowInducedBy(1, rowBeta[1].computed)

\* The sum of the similarities exp(-D[a][j] * b) of row a to the other points.
SimilaritySum(a, b) ==
    SeqSum([j \in 1..tsne.n |->
               IF j = a THEN Zero ELSE Exp(Neg(Mul(D[a][j], b)))])

\* A search step on a row whose similarities sum to exactly zero: the row is
\* stored as all zeros; the entropy is taken as 0, so the step ends the row
\* exactly when ln(perplexity) is within the tolerance of 0 or it is the 50th
\* step, and otherwise the search goes on with the beta tried as the upper
\* bound and a beta no higher than it; nothing panics.
ZeroSumStep ==
    (pc = "d2p" /\ SimilaritySum(i, beta) = Zero) =>
        /\ tsne.P'[i] = [j \in 1..tsne.n |-> Zero]
        /\ pc' \in {"d2p", "symmetrize"}
        /\ LET ends == \/ Lt(Abs(Sub(Zero, Log(tsne.perplexity))), EntropyTolerance)
                       \/ tries + 1 = MaxBinarySearchSteps
           IN  IF ends
               THEN /\ rowTries' = Append(rowTries, tries + 1)
                    /\ i' = i + 1
                    /\ (pc' = "symmetrize") = (i = tsne.n)
               ELSE /\ i' = i /\ tries' = tries + 1 /\ pc' = "d2p"
                    /\ (~Lt(Log(tsne.perplexity), Zero) =>
                           (betaMax' = beta /\ ~Lt(beta, beta')))

\* C19: in a binary-search step of d2p, when the similarities of the row sum
\* to exactly zero, every probability of the row is set to zero without a
\* division and without an error, the entropy of the row is taken as 0, and
\* the search continues and ends within its 50 steps.
C19_ZeroSumRow ==
    /\ [][ZeroSumStep]_vars
    /\ [](\A a \in 1..Len(rowTries) : rowTries[a] <= MaxBinarySearchSteps)

\* A call on three points has returned; the search of the first row went on
\* over several steps and ended, before its 50th, on a row of zero sum.
C19_Witness ==
    /\ pc = "done" /\ result # Nil /\ tsne.n = 3
    /\ rowP[1] = <<Zero, Zero, Zero>>
    /\ rowTries[1] > 1 /\ rowTries[1] < MaxBinarySearchSteps

\* P has all its rows, symmetrized, and Y has been drawn.
Prepared ==
    /\ Len(rowTries) = tsne.n /\ rowP # Nil /\ y0 # Nil
    /\ tsne.P = Symmetrize(rowP, tsne.n)
    /\ tsne.Y # Nil /\ Rows(tsne.Y) = tsne.n

\* The embedding after one iteration that started at yStart: the step along
\* the gradient now in dCdY, then the re-centering.
SteppedAndRecentered ==
    Recenter([a \in 1..tsne.n |-> [b \in 1..tsne.dimsOut |->
                 Sub(yStart[a][b], Mul(tsne.learningRate, tsne.dCdY[a][b]))]],
             tsne.n)

\* What holds whenever the step function is about to be called or has been
\* called: the preparation is complete, as many iterations have been computed
\* as there are calls (one more while a call is due), and a due call finds
\* the updated, re-centered Y and the divergence of the Y the iteration
\* started from.
CallbackInOrder ==
    /\ (pc = "stepFunc" \/ calls # <<>>) => (stepFunc /\ Prepared)
    /\ calls # <<>> => pc \in {"stepFunc", "run", "return", "done"}
    /\ Len(calls) <= nCost
    /\ stepFunc => nCost <= Len(calls) + 1
    /\ pc = "stepFunc" =>
          /\ nCost = Len(calls) + 1 /\ iter = Len(calls)
          /\ tsne.Y = SteppedAndRecentered
          /\ \E Q \in {NormalizeQ(StudentT(yStart))} :
                divergence = Divergence(tsne.P, Q, tsne.PlogP)

\* A call of the step function happens at its place only, with the iteration
\* index, the divergence and Y of the iteration just computed; an iteration
\* is computed only when every iteration before it has had its call answered,
\* and not with stop.
OrderedStep ==
    /\ calls' # calls =>
          /\ pc = "stepFunc"
          /\ Len(calls') = Len(calls) + 1
          /\ calls' = Append(calls, [iter       |-> nCost - 1,
                                     divergence |-> divergence,
                                     embedding  |-> tsne.Y,
                                     stop       |-> calls'[Len(calls')].stop])
          /\ UNCHANGED <<tsne, nCost>>
    /\ nCost' # nCost =>
          /\ pc = "run" /\ nCost' = nCost + 1 /\ yStart' = tsne.Y
          /\ stepFunc => (Len(calls) = nCost /\ (nCost > 0 => ~calls[nCost].stop))
          /\ pc' = IF stepFunc THEN "stepFunc" ELSE "run"
    /\ (pc = "stepFunc" /\ pc' # "stepFunc") => calls' # calls

\* C20: the step function is never called before P is fully computed and Y
\* is initialized; within an iteration it is called only after the
\* cost/gradient computation, the update of Y and the re-centering, and it
\* receives the divergence computed from Y as it was before the update; the
\* next iteration is not computed until the call of this one has returned.
C20_PhaseOrder ==
    /\ []CallbackInOrder
    /\ [][OrderedStep]_vars

\* A call on three points has returned after two iterations, each followed
\* by its call of the step function, the second receiving another embedding
\* and another divergence than the first.
C20_Witness ==
    /\ pc = "done" /\ tsne.n = 3 /\ nCost = 2 /\ Len(calls) = 2
    /\ calls[1].iter = 0 /\ calls[2].iter = 1
    /\ calls[1].embedding # calls[2].embedding
    /\ calls[1].divergence # calls[2].divergence
    /\ calls[2].embedding = result

\* The bounds of the search are open or betas the search of this row tried:
\* the lower one a beta whose entropy was above the target, the upper one a
\* beta whose entropy was not.
BoundsWereTried ==
    /\ \/ betaMin = NegInf
       \/ \E k \in 1..Len(triedBeta) :
             triedBeta[k].beta = betaMin /\ triedBeta[k].high
    /\ \/ betaMax = PosInf
       \/ \E k \in 1..Len(triedBeta) :
             triedBeta[k].beta = betaMax /\ ~triedBeta[k].high

\* At the start of a search step: beta is positive and finite, it lies
\* between the bounds, and the bounds have not crossed.
SearchInterval ==
    pc = "d2p" =>
        /\ Len(triedBeta) = tries
        /\ Gt(beta, Zero) /\ IsFinite(beta)
        /\ ~Lt(beta, betaMin) /\ ~Lt(betaMax, beta)
        /\ Lt(betaMin, betaMax)
        /\ BoundsWereTried

\* A step that stays in its row records the beta it tried with the verdict
\* on the entropy of the row it stored, and leaves no bound further out.
IntervalNotWidened ==
    (pc = "d2p" /\ i' = i /\ pc' = "d2p") =>
        /\ triedBeta' = Append(triedBeta,
               [beta |-> beta,
                high |-> Gt(Entropy(tsne.P'[i]), Log(tsne.perplexity))])
        /\ ~Lt(betaMin', betaMin) /\ ~Lt(betaMax, betaMax')

\* C21: at the start of every search step of d2p, beta > 0 and
\* betaMin <= beta <= betaMax, where betaMin is minus infinity or a beta tried
\* before whose entropy exceeded the target and betaMax is plus infinity or a
\* beta tried before whose entropy did not; betaMin < betaMax, and no step
\* widens the interval.
C21_SearchInterval ==
    /\ []SearchInterval
    /\ [][IntervalNotWidened]_vars

\* The search of a row is under way with both bounds set by earlier steps and
\* beta strictly between them.
C21_Witness ==
    /\ pc = "d2p" /\ Len(triedBeta) > 3
    /\ IsFinite(betaMin) /\ IsFinite(betaMax) /\ BoundsWereTried
    /\ Lt(betaMin, beta) /\ Lt(beta, betaMax)
    /\ \E k \in 1..Len(triedBeta) : Lt(betaMax, triedBeta[k].beta)

====
